---- MODULE Spec2Model ----
(***************************************************************************)
(* ThePaye: the PAYE / NSSF / NHIF / AHL net-pay engine (calculatePAYE),   *)
(* the in-memory history (HistoryProvider.addToHistory) and the history    *)
(* screen that presents it (HistoryScreen).                                *)
(*                                                                         *)
(* Money.  Every amount is an integer number of cents (1 KES = 100).  The  *)
(* code works in IEEE doubles; a product with a rate (6%, 1.5%, 32.5% ...) *)
(* of an amount in whole cents is a multiple of 1/1000 cent, so an         *)
(* unrounded amount is the pair [c, m] = c + m/1000 cents, 0 <= m < 1000.  *)
(* The representation error of a double at these magnitudes is below 1e-9  *)
(* cent, so Number.toFixed(2) yields the nearest cent of the exact value   *)
(* whenever that is unique; on an exact half cent the binary value decides *)
(* (49999 * 0.015 gives 749.99 but 0.25 * 0.06 gives 0.01), which the      *)
(* model leaves open: each rounding site takes a flag `up` that says which *)
(* way a half cent goes, and the Calculate action draws every flag.        *)
(***************************************************************************)
EXTENDS Integers, Sequences, FiniteSets, TLC

VARIABLES
    input,      \* the parameter object handed to calculatePAYE
    result,     \* <<>> before the call, <<r>> once calculatePAYE returned r
    history,    \* HistoryProvider's `history` state (array of entries)
    now,        \* the reading new Date() gives, in clock ticks
    appended,   \* the results passed to addToHistory so far, in call order
    listData,   \* the `data` prop HistoryScreen last handed to its FlatList
    heap,       \* the objects and arrays allocated, and which array is `history`
    snaps,      \* arrays that readers of the history hold, with what they saw
    passed,     \* result objects passed to addToHistory, with what they held
    form,       \* NetPayCalculator's text fields and switches
    loading,    \* NetPayCalculator's `loading` state
    errorMessage,   \* NetPayCalculator's `errorMessage` state
    pending,    \* handleCalculate invocations suspended at their await
    engineCalls,    \* the parameter objects calculatePAYE was called with
    route,      \* the results navigate('CalculationResult', { result }) was given
    edits,      \* how many edits the user has made to the form
    calls       \* how many times handleCalculate has been entered

engineVars == <<input, result>>
ledgerVars == <<history, now, appended, listData>>
heapVars == <<heap, snaps, passed>>
formVars == <<form, loading, errorMessage, pending, engineCalls, route, edits, calls>>

vars == <<engineVars, ledgerVars, heapVars, formVars>>

----------------------------------------------------------------------------
(* Numbers                                                                 *)

KES(x) == x * 100

Exact(c) == [c |-> c, m |-> 0]

\* x cents times a rate given per mille (0.06 is 60), exactly; x >= 0.
Times(x, permille) ==
    LET q == x \div 1000
        r == (x % 1000) * permille
    IN  [c |-> q * permille + r \div 1000, m |-> r % 1000]

Plus(a, b) ==
    LET s == a.m + b.m
    IN  [c |-> a.c + b.c + s \div 1000, m |-> s % 1000]

MathMax(a, b) == IF a >= b THEN a ELSE b

MathMin(a, b) == IF a <= b THEN a ELSE b

\* Math.max(0, v) on an unrounded amount: v < 0 exactly when its floor is.
MathMax0(v) == IF v.c < 0 THEN Exact(0) ELSE v

\* parseFloat(v.toFixed(2)): the nearest cent; `up` decides an exact half.
toFixed2(v, up) ==
    IF v.m > 500 \/ (v.m = 500 /\ up) THEN v.c + 1 ELSE v.c

Sites == {"nssf", "ahl", "paye"}

Rounding == [Sites -> BOOLEAN]

----------------------------------------------------------------------------
(* calculatePAYE, stage by stage                                           *)

BENEFITS_EXEMPT == KES(5000)
NSSF_LEL == KES(6000)
NSSF_BWC == KES(18000)
NSSF_RATE == 60
NSSF_FLAT == KES(200)
AHL_RATE == 15
PENSION_CAP == KES(30000)
KRA_MONTHLY_RELIEF == KES(2400)

\* 1. taxable non-cash benefits
TaxableBenefitsNoFloor(p) ==
    LET base == IF ~p.ignoreBenefits THEN p.benefits
                ELSE MathMax(0, p.benefits - BENEFITS_EXEMPT)
        housing == IF p.housed /\ p.housingValue > 0
                   THEN p.housingValue - p.rent ELSE 0
    IN  toFixed2(Exact(base + housing), TRUE)

\* the housing value taxed whether or not the employee is housed
TaxableBenefitsAnyHousing(p) ==
    LET base == IF ~p.ignoreBenefits THEN p.benefits
                ELSE MathMax(0, p.benefits - BENEFITS_EXEMPT)
        housing == IF p.housingValue > 0
                   THEN MathMax(0, p.housingValue - p.rent) ELSE 0
    IN  toFixed2(Exact(base + housing), TRUE)

TaxableBenefits(p) ==
    LET base == IF ~p.ignoreBenefits THEN p.benefits
                ELSE MathMax(0, p.benefits - BENEFITS_EXEMPT)
        housing == IF p.housed /\ p.housingValue > 0
                   THEN MathMax(0, p.housingValue - p.rent) ELSE 0
    IN  toFixed2(Exact(base + housing), TRUE)

\* 2. NSSF
NssfTier2Always(p, up) ==
    IF p.use2025Tiers
    THEN toFixed2(Plus(Times(MathMin(p.grossPay, NSSF_LEL), NSSF_RATE),
                       IF p.grossPay > NSSF_LEL
                       THEN Times(MathMin(p.grossPay, NSSF_BWC) - NSSF_LEL, NSSF_RATE)
                       ELSE Exact(0)), up)
    ELSE toFixed2(Exact(NSSF_FLAT), up)

Nssf(p, up) ==
    IF p.use2025Tiers
    THEN LET tier1Contribution == Times(MathMin(p.grossPay, NSSF_LEL), NSSF_RATE)
             tier2Contribution ==
                 IF p.deductTier2 /\ p.grossPay > NSSF_LEL
                 THEN Times(MathMin(p.grossPay, NSSF_BWC) - NSSF_LEL, NSSF_RATE)
                 ELSE Exact(0)
         IN  toFixed2(Plus(tier1Contribution, tier2Contribution), up)
    ELSE toFixed2(Exact(NSSF_FLAT), up)

\* 3. NHIF (SHIF): the if / else-if chain, <<inclusive upper bound, levy>>
NhifBands ==
    << <<KES(5999), KES(150)>>,   <<KES(7999), KES(300)>>,
       <<KES(11999), KES(400)>>,  <<KES(14999), KES(500)>>,
       <<KES(19999), KES(600)>>,  <<KES(24999), KES(750)>>,
       <<KES(29999), KES(850)>>,  <<KES(34999), KES(900)>>,
       <<KES(39999), KES(950)>>,  <<KES(44999), KES(1000)>>,
       <<KES(49999), KES(1100)>>, <<KES(59999), KES(1200)>>,
       <<KES(69999), KES(1300)>>, <<KES(79999), KES(1400)>>,
       <<KES(89999), KES(1500)>>, <<KES(99999), KES(1600)>> >>

NHIF_TOP == KES(1700)

RECURSIVE NhifFrom(_, _)
NhifFrom(grossPay, i) ==
    IF i > Len(NhifBands) THEN NHIF_TOP
    ELSE IF grossPay <= NhifBands[i][1] THEN NhifBands[i][2]
    ELSE NhifFrom(grossPay, i + 1)

\* a chain written with whole-shilling gaps: x < bound + 1 KES for x <= bound
RECURSIVE NhifFromWholeKes(_, _)
NhifFromWholeKes(grossPay, i) ==
    IF i > Len(NhifBands) THEN NHIF_TOP
    ELSE IF grossPay < NhifBands[i][1] + KES(1) THEN NhifBands[i][2]
    ELSE NhifFromWholeKes(grossPay, i + 1)

NhifWholeKes(grossPay) == toFixed2(Exact(NhifFromWholeKes(grossPay, 1)), TRUE)

Nhif(grossPay) == toFixed2(Exact(NhifFrom(grossPay, 1)), TRUE)

\* 4. Affordable Housing Levy
\* the levy charged whatever the deductAHL switch says
AhlAlways(p, up) == toFixed2(Times(p.grossPay, AHL_RATE), up)

Ahl(p, up) ==
    IF p.deductAHL THEN toFixed2(Times(p.grossPay, AHL_RATE), up)
    ELSE toFixed2(Exact(0), up)

\* 5. taxable income (the second computation, which overwrites the first)
TaxableIncomeFullPension(p, taxableBenefits, nssf, nhif, ahl) ==
    toFixed2(Exact(MathMax(0, p.grossPay + taxableBenefits - p.pension
                              - nssf - nhif - ahl - p.allowableDeductions)), TRUE)

TaxableIncomeNoFloor(p, taxableBenefits, nssf, nhif, ahl) ==
    toFixed2(Exact(p.grossPay + taxableBenefits - MathMin(p.pension, PENSION_CAP)
                     - nssf - nhif - ahl - p.allowableDeductions), TRUE)

TaxableIncome(p, taxableBenefits, nssf, nhif, ahl) ==
    LET incomeSubjectToPAYE ==
            p.grossPay + taxableBenefits - MathMin(p.pension, PENSION_CAP)
              - nssf - nhif - ahl - p.allowableDeductions
    IN  toFixed2(Exact(MathMax(0, incomeSubjectToPAYE)), TRUE)

\* 6. PAYE
BAND1_TOP == KES(24000)
BAND2_TOP == KES(32333)
BAND3_TOP == KES(500000)
BAND4_TOP == KES(800000)
BAND2_WIDTH_Typo == KES(833)
BAND2_WIDTH == KES(8333)
BAND3_WIDTH_Typo == KES(46767)
BAND3_WIDTH == KES(467667)
BAND4_WIDTH == KES(300000)
RATE1 == 100
RATE2 == 250
RATE3 == 300
RATE4 == 325
RATE5 == 350

\* the top rate of the bracket applied to the whole amount
TaxBeforeReliefFlat(taxableIncome) ==
    IF taxableIncome <= BAND1_TOP THEN Times(taxableIncome, RATE1)
    ELSE IF taxableIncome <= BAND2_TOP THEN Times(taxableIncome, RATE2)
    ELSE IF taxableIncome <= BAND3_TOP THEN Times(taxableIncome, RATE3)
    ELSE IF taxableIncome <= BAND4_TOP THEN Times(taxableIncome, RATE4)
    ELSE Times(taxableIncome, RATE5)

TaxBeforeRelief(taxableIncome) ==
    IF taxableIncome <= BAND1_TOP THEN
        Times(taxableIncome, RATE1)
    ELSE IF taxableIncome <= BAND2_TOP THEN
        Plus(Times(BAND1_TOP, RATE1), Times(taxableIncome - BAND1_TOP, RATE2))
    ELSE IF taxableIncome <= BAND3_TOP THEN
        Plus(Plus(Times(BAND1_TOP, RATE1), Times(BAND2_WIDTH, RATE2)),
             Times(taxableIncome - BAND2_TOP, RATE3))
    ELSE IF taxableIncome <= BAND4_TOP THEN
        Plus(Plus(Plus(Times(BAND1_TOP, RATE1), Times(BAND2_WIDTH, RATE2)),
                  Times(BAND3_WIDTH, RATE3)),
             Times(taxableIncome - BAND3_TOP, RATE4))
    ELSE
        Plus(Plus(Plus(Plus(Times(BAND1_TOP, RATE1), Times(BAND2_WIDTH, RATE2)),
                       Times(BAND3_WIDTH, RATE3)),
                  Times(BAND4_WIDTH, RATE4)),
             Times(taxableIncome - BAND4_TOP, RATE5))

Paye(taxableIncome, up) ==
    toFixed2(MathMax0(Plus(TaxBeforeRelief(taxableIncome),
                           Exact(0 - KRA_MONTHLY_RELIEF))), up)

\* 7. total deductions
TotalDeductionsCappedPension(p, paye, nssf, nhif, ahl) ==
    toFixed2(Exact(paye + nssf + nhif + ahl + MathMin(p.pension, PENSION_CAP)
                     + p.allowableDeductions), TRUE)

TotalDeductions(p, paye, nssf, nhif, ahl) ==
    toFixed2(Exact(paye + nssf + nhif + ahl + p.pension + p.allowableDeductions), TRUE)

\* 8. net pay
NetPayClamped(grossPay, totalDeductions) ==
    toFixed2(Exact(MathMax(0, grossPay - totalDeductions)), TRUE)

NetPay(grossPay, totalDeductions) == toFixed2(Exact(grossPay - totalDeductions), TRUE)

calculatePAYE(p, up) ==
    LET taxableBenefits == TaxableBenefits(p)
        nssf == Nssf(p, up["nssf"])
        nhif == Nhif(p.grossPay)
        ahl == Ahl(p, up["ahl"])
        taxableIncome == TaxableIncome(p, taxableBenefits, nssf, nhif, ahl)
        paye == Paye(taxableIncome, up["paye"])
        totalDeductions == TotalDeductions(p, paye, nssf, nhif, ahl)
        netPay == NetPay(p.grossPay, totalDeductions)
    IN  [ grossPay |-> toFixed2(Exact(p.grossPay), TRUE),
          benefits |-> toFixed2(Exact(p.benefits), TRUE),
          pension |-> toFixed2(Exact(p.pension), TRUE),
          allowableDeductions |-> toFixed2(Exact(p.allowableDeductions), TRUE),
          housed |-> p.housed,
          housingValue |-> toFixed2(Exact(p.housingValue), TRUE),
          rent |-> toFixed2(Exact(p.rent), TRUE),
          taxableBenefits |-> taxableBenefits,
          taxableIncome |-> taxableIncome,
          paye |-> paye,
          nssf |-> nssf,
          nhif |-> nhif,
          ahl |-> ahl,
          totalDeductions |-> totalDeductions,
          netPay |-> netPay,
          personalReliefUsed |-> KRA_MONTHLY_RELIEF ]

----------------------------------------------------------------------------
(* The engine's inputs.  Gross pay sits on and just above every limit the  *)
(* code compares it with (NHIF band bounds, NSSF limits), and where the    *)
(* taxable income it yields meets a PAYE bracket bound.                    *)

Spread == 1

Toggles == [ignoreBenefits : BOOLEAN, use2025Tiers : BOOLEAN,
            deductTier2 : BOOLEAN, deductAHL : BOOLEAN]

GrossLimits ==
    {NhifBands[i][1] : i \in 1..Len(NhifBands)} \cup {NSSF_LEL, NSSF_BWC}

\* gross pays whose taxable income is a bracket bound when nothing else is
\* entered and NSSF is the flat 200 (24000 + 200 + 750, 32333 + 200 + 900 ...)
GrossAtBrackets == {KES(24950), KES(33433), KES(501900), KES(801900)}

GrossPays ==
    {0, 25, KES(1000000)}
      \cup {g + d : g \in GrossLimits, d \in 0..Spread}
      \cup {g + 50 : g \in GrossLimits}
      \cup {g + KES(1) : g \in GrossLimits}
      \cup {g + d : g \in GrossAtBrackets, d \in (0 - Spread)..Spread}

FewGrossPays == {1, KES(5999) + 50, KES(24950), KES(50000), KES(501900) + 1, KES(900000)}

Housings ==
    { [housed |-> FALSE, housingValue |-> 0, rent |-> 0],
      [housed |-> FALSE, housingValue |-> KES(10000), rent |-> KES(2000)],
      [housed |-> TRUE, housingValue |-> 0, rent |-> KES(2000)],
      [housed |-> TRUE, housingValue |-> KES(10000), rent |-> 0],
      [housed |-> TRUE, housingValue |-> KES(10000), rent |-> KES(4000)],
      [housed |-> TRUE, housingValue |-> KES(10000), rent |-> KES(15000)] }

Benefits == {0, KES(3000), KES(7000)}
Pensions == {0, KES(30000) - Spread, KES(30000), KES(35000)}
OtherDeductions == {0, KES(1000), KES(60000)}

MakeInput(g, b, pn, ad, h, t) ==
    [ grossPay |-> g, benefits |-> b, pension |-> pn, allowableDeductions |-> ad,
      housed |-> h.housed, housingType |-> "1",
      housingValue |-> h.housingValue, rent |-> h.rent,
      ignoreBenefits |-> t.ignoreBenefits, use2025Tiers |-> t.use2025Tiers,
      deductTier2 |-> t.deductTier2, deductAHL |-> t.deductAHL ]

NoHousing == [housed |-> FALSE, housingValue |-> 0, rent |-> 0]

\* the calculator screen's initial switches (all four on)
DefaultToggles == [ignoreBenefits |-> TRUE, use2025Tiers |-> TRUE,
                   deductTier2 |-> TRUE, deductAHL |-> TRUE]

Inputs ==
    {MakeInput(g, 0, 0, 0, NoHousing, t) : g \in GrossPays, t \in Toggles}
      \cup {MakeInput(g, b, pn, ad, h, t) :
              g \in FewGrossPays, b \in Benefits, pn \in Pensions,
              ad \in OtherDeductions, h \in Housings, t \in Toggles}

NoInput == MakeInput(0, 0, 0, 0, NoHousing, DefaultToggles)

\* NetPayCalculator's useState initial values; a text is its characters
InitialForm ==
    [ grossPay |-> <<>>, benefits |-> <<"0">>, pension |-> <<"0">>,
      allowableDeductions |-> <<"0">>, housed |-> FALSE, housingType |-> "1",
      housingValue |-> <<"0">>, rent |-> <<"0">>,
      ignoreBenefits |-> TRUE, use2025Tiers |-> TRUE,
      deductTier2 |-> TRUE, deductAHL |-> TRUE ]

\* the calculator screen as mounted, nothing pressed yet
FormStart ==
    /\ form = InitialForm
    /\ loading = FALSE
    /\ errorMessage = ""
    /\ pending = <<>>
    /\ engineCalls = <<>>
    /\ route = <<>>
    /\ edits = 0
    /\ calls = 0

\* useState([]): one empty array, no entry objects, no reader yet
HeapStart ==
    /\ heap = [objs |-> <<>>, arrs |-> << <<>> >>, hist |-> 1]
    /\ snaps = <<>>
    /\ passed = <<>>

EngineInit ==
    /\ input \in Inputs
    /\ result = <<>>
    /\ history = <<>>
    /\ now = 0
    /\ appended = <<>>
    /\ listData = <<>>
    /\ HeapStart
    /\ FormStart

\* one call of calculatePAYE
Calculate ==
    /\ result = <<>>
    /\ \E up \in Rounding : result' = <<calculatePAYE(input, up)>>
    /\ UNCHANGED <<input, ledgerVars, heapVars, formVars>>

EngineNext == Calculate

EngineSpec == EngineInit /\ [][EngineNext]_vars

----------------------------------------------------------------------------
(* The history: HistoryProvider and HistoryScreen                          *)

MaxHistory == 3
MaxClock == 2

AllUp == [s \in Sites |-> TRUE]

\* results handed to addToHistory: what calculatePAYE returned for a call
SampleResults ==
    { calculatePAYE(MakeInput(g, 0, 0, 0, NoHousing, DefaultToggles), AllUp) :
        g \in {KES(5999) + 50, KES(50000)} }

RECURSIVE Reverse(_)
Reverse(s) == IF s = <<>> THEN <<>> ELSE Append(Reverse(Tail(s)), Head(s))

\* { ...result, timestamp: new Date().toISOString() }.  ISO strings of equal
\* length order as the instants they name, so the reading stands for the string.
\* The stamp is written after the spread, so it wins over a `timestamp` the
\* result might carry (f @@ g keeps f where both are defined).
WithTimestamp(r, t) == [timestamp |-> t] @@ r

\* the entry without the stamp addToHistory added
EntryResult(e) == [k \in DOMAIN e \ {"timestamp"} |-> e[k]]

\* setHistory((prev) => [newResultWithTimestamp, ...prev])
addToHistory(prev, r, t) == <<WithTimestamp(r, t)>> \o prev

\* data={[...history].reverse()}; with no history no list is rendered
HistoryScreenData(h) == IF Len(h) = 0 THEN <<>> ELSE Reverse(h)

\* renderItem({ item, index }): the row's title number, net pay and date
renderItem(h, item, index) ==
    [ title |-> Len(h) - index, netPay |-> item.netPay,
      date |-> item.timestamp, item |-> item ]

Init ==
    /\ input = NoInput
    /\ result = <<>>
    /\ history = <<>>
    /\ now \in 0..MaxClock
    /\ appended = <<>>
    /\ listData = <<>>
    /\ HeapStart
    /\ FormStart

\* a caller saves a result it got from calculatePAYE
AddToHistory ==
    /\ Len(history) < MaxHistory
    /\ \E r \in SampleResults :
         /\ history' = addToHistory(history, r, now)
         /\ appended' = Append(appended, r)
    /\ UNCHANGED <<engineVars, now, listData, heapVars, formVars>>

\* the system clock moves; it is not monotonic (it can be set back)
Tick ==
    /\ \E t \in 0..MaxClock : t # now /\ now' = t
    /\ UNCHANGED <<engineVars, history, appended, listData, heapVars, formVars>>

\* HistoryScreen renders from the context's history
RenderHistory ==
    /\ listData' = HistoryScreenData(history)
    /\ UNCHANGED <<engineVars, history, now, appended, heapVars, formVars>>

Next == AddToHistory \/ Tick \/ RenderHistory

Spec == Init /\ [][Next]_vars

----------------------------------------------------------------------------
(* The history as JavaScript objects.  An object or array is its index in  *)
(* heap.objs / heap.arrs; an array holds the indices of its elements;      *)
(* heap.hist is the array React's `history` state refers to.               *)

MaxSnaps == 2

\* the elements of an array, as the values they hold now
Deref(h, a) == [i \in 1..Len(h.arrs[a]) |-> h.objs[h.arrs[a][i]]]

\* a caller's result object (what calculatePAYE returned to it)
NewObject(h, value) == [h EXCEPT !.objs = Append(@, value)]

\* prev.unshift(Object.assign(result, { timestamp })); return prev
heapAddToHistoryInPlace(h, resultObj, t) ==
    [h EXCEPT !.objs[resultObj] = WithTimestamp(@, t),
              !.arrs[h.hist] = <<resultObj>> \o @]

\* addToHistory on the heap: a new entry object { ...result, timestamp } and
\* a new array [entry, ...prev], which becomes the state
heapAddToHistory(h, resultObj, t) ==
    LET objs2 == Append(h.objs, WithTimestamp(h.objs[resultObj], t))
        arrs2 == Append(h.arrs, <<Len(objs2)>> \o h.arrs[h.hist])
    IN  [objs |-> objs2, arrs |-> arrs2, hist |-> Len(arrs2)]

\* data={history.reverse()}: Array.prototype.reverse works in place
heapHistoryScreenDataInPlace(h) ==
    [heap |-> [h EXCEPT !.arrs[h.hist] = Reverse(@)], data |-> h.hist]

\* data={[...history].reverse()}: a copy of the array, reversed
heapHistoryScreenData(h) ==
    LET arrs2 == Append(h.arrs, Reverse(h.arrs[h.hist]))
    IN  [heap |-> [h EXCEPT !.arrs = arrs2], data |-> Len(arrs2)]

HeapInit ==
    /\ input = NoInput
    /\ result = <<>>
    /\ history = <<>>
    /\ now = 0
    /\ appended = <<>>
    /\ listData = <<>>
    /\ HeapStart
    /\ FormStart

\* a caller passes a fresh result object to addToHistory
HeapAddToHistory ==
    /\ Len(passed) < MaxHistory
    /\ \E x \in SampleResults :
         LET h1 == NewObject(heap, x)
             resultObj == Len(h1.objs)
         IN  /\ heap' = heapAddToHistory(h1, resultObj, now)
             /\ passed' = Append(passed, [obj |-> resultObj, was |-> x])
    /\ UNCHANGED <<engineVars, ledgerVars, snaps, formVars>>

\* a component reads `history` from the context and keeps the array
HeapUseContext ==
    /\ Len(snaps) < MaxSnaps
    /\ snaps' = Append(snaps, [kind |-> "context", arr |-> heap.hist,
                               items |-> Deref(heap, heap.hist),
                               gen |-> Len(passed)])
    /\ UNCHANGED <<engineVars, ledgerVars, heap, passed, formVars>>

\* HistoryScreen renders a non-empty history and FlatList keeps its data
HeapRenderHistory ==
    /\ Len(snaps) < MaxSnaps
    /\ Len(heap.arrs[heap.hist]) > 0
    /\ LET out == heapHistoryScreenData(heap)
       IN  /\ heap' = out.heap
           /\ snaps' = Append(snaps, [kind |-> "list", arr |-> out.data,
                                      items |-> Deref(out.heap, out.data),
                                      gen |-> Len(passed)])
    /\ UNCHANGED <<engineVars, ledgerVars, passed, formVars>>

HeapNext == HeapAddToHistory \/ HeapUseContext \/ HeapRenderHistory

HeapSpec == HeapInit /\ [][HeapNext]_vars

----------------------------------------------------------------------------
(* The calculator screen: text fields, switches, handleCalculate.          *)

MaxActions == 5

\* parseFloat's result for a text with no leading number
NaN == 0 - 2147483647

isNaN(x) == x = NaN

Digits == <<"0", "1", "2", "3", "4", "5", "6", "7", "8", "9">>

IsDigit(ch) == \E d \in 1..Len(Digits) : Digits[d] = ch

DigitValue(ch) == (CHOOSE d \in 1..Len(Digits) : Digits[d] = ch) - 1

\* how many digits a text starts with
RECURSIVE DigitRun(_)
DigitRun(text) ==
    IF text = <<>> \/ ~IsDigit(Head(text)) THEN 0 ELSE 1 + DigitRun(Tail(text))

RECURSIVE Decimal(_)
Decimal(digits) ==
    IF digits = <<>> THEN 0
    ELSE 10 * Decimal(SubSeq(digits, 1, Len(digits) - 1))
           + DigitValue(digits[Len(digits)])

\* parseFloat, in cents: an optional sign, digits, an optional point and
\* digits; whatever follows is ignored, and NaN if no digit was read.  The
\* texts entered here carry at most two decimals.
ParseFloat(text) ==
    LET neg == text # <<>> /\ Head(text) = "-"
        body == IF neg THEN Tail(text) ELSE text
        whole == DigitRun(body)
        rest == SubSeq(body, whole + 1, Len(body))
        frac == IF rest # <<>> /\ Head(rest) = "." THEN DigitRun(Tail(rest))
                ELSE 0
        tenths == IF frac >= 1 THEN DigitValue(rest[2]) ELSE 0
        hundredths == IF frac >= 2 THEN DigitValue(rest[3]) ELSE 0
        value == 100 * Decimal(SubSeq(body, 1, whole)) + 10 * tenths + hundredths
    IN  IF whole = 0 /\ frac = 0 THEN NaN
        ELSE IF neg THEN 0 - value ELSE value

\* text || '0'
OrZero(text) == IF text = <<>> THEN <<"0">> ELSE text

\* the six parsed values of handleCalculate
Parsed(f) ==
    [ grossPay |-> ParseFloat(f.grossPay),
      benefits |-> ParseFloat(OrZero(f.benefits)),
      pension |-> ParseFloat(OrZero(f.pension)),
      allowableDeductions |-> ParseFloat(OrZero(f.allowableDeductions)),
      housingValue |-> ParseFloat(OrZero(f.housingValue)),
      rent |-> ParseFloat(OrZero(f.rent)) ]

GROSS_MESSAGE == "Gross Pay must be a positive number."
INPUTS_MESSAGE ==
    "Please ensure all numerical inputs are valid non-negative numbers."

GrossInvalid(parsed) == isNaN(parsed.grossPay) \/ parsed.grossPay <= 0

\* the second check without its pension line
OthersInvalidNoPension(f, parsed) ==
    \/ isNaN(parsed.benefits) \/ parsed.benefits < 0
    \/ isNaN(parsed.allowableDeductions) \/ parsed.allowableDeductions < 0
    \/ /\ f.housed
       /\ \/ isNaN(parsed.housingValue) \/ parsed.housingValue < 0
          \/ isNaN(parsed.rent) \/ parsed.rent < 0

OthersInvalid(f, parsed) ==
    \/ isNaN(parsed.benefits) \/ parsed.benefits < 0
    \/ isNaN(parsed.pension) \/ parsed.pension < 0
    \/ isNaN(parsed.allowableDeductions) \/ parsed.allowableDeductions < 0
    \/ /\ f.housed
       /\ \/ isNaN(parsed.housingValue) \/ parsed.housingValue < 0
          \/ isNaN(parsed.rent) \/ parsed.rent < 0

\* the object handleCalculate passes to calculatePAYE
Params(f, parsed) ==
    [ grossPay |-> parsed.grossPay, benefits |-> parsed.benefits,
      pension |-> parsed.pension,
      allowableDeductions |-> parsed.allowableDeductions,
      housed |-> f.housed, housingType |-> f.housingType,
      housingValue |-> parsed.housingValue, rent |-> parsed.rent,
      ignoreBenefits |-> f.ignoreBenefits, use2025Tiers |-> f.use2025Tiers,
      deductTier2 |-> f.deductTier2, deductAHL |-> f.deductAHL ]

\* setHistory([newResultWithTimestamp, ...history]) with the history of the
\* render in which the handler was created
setHistoryFromRender(current, rendered, x, t) == addToHistory(rendered, x, t)

\* setHistory((prev) => [newResultWithTimestamp, ...prev]): React applies the
\* updater to the current state, whatever was rendered when it was created
setHistory(current, rendered, x, t) == addToHistory(current, x, t)

\* what the user types into each field: zero, a negative amount, an amount
\* followed by a letter, an amount, nothing, a letter
Texts ==
    [ grossPay |-> { <<"0">>, <<"-", "5">>, <<"1", "2", ".", "5", "a">>,
                     <<"5", "0", "0", "0", "0">> },
      benefits |-> { <<>>, <<"a">>, <<"-", "5">> },
      pension |-> { <<"a">>, <<"-", "5">> },
      allowableDeductions |-> { <<"a">>, <<"-", "5">> },
      housingValue |-> { <<"a">>, <<"-", "5">> },
      rent |-> { <<"a">>, <<"-", "5">> } ]

AlwaysShown == {"grossPay", "benefits", "pension", "allowableDeductions"}
ShownWhenHoused == {"housingValue", "rent"}
Switches ==
    {"housed", "ignoreBenefits", "use2025Tiers", "deductTier2", "deductAHL"}

FormInit ==
    /\ input = NoInput
    /\ result = <<>>
    /\ history = <<>>
    /\ now = 0
    /\ appended = <<>>
    /\ listData = <<>>
    /\ HeapStart
    /\ FormStart

\* onChangeText of a text input; the housing inputs exist only while housed
SetText ==
    /\ edits + calls < MaxActions
    /\ \E field \in AlwaysShown \cup ShownWhenHoused : \E text \in Texts[field] :
         /\ field \in ShownWhenHoused => form.housed
         /\ text # form[field]
         /\ form' = [form EXCEPT ![field] = text]
    /\ edits' = edits + 1
    /\ UNCHANGED <<engineVars, ledgerVars, heapVars, loading, errorMessage,
                   pending, engineCalls, route, calls>>

\* onValueChange of a switch
ToggleSwitch ==
    /\ edits + calls < MaxActions
    /\ \E switch \in Switches : form' = [form EXCEPT ![switch] = ~@]
    /\ edits' = edits + 1
    /\ UNCHANGED <<engineVars, ledgerVars, heapVars, loading, errorMessage,
                   pending, engineCalls, route, calls>>

\* the housing type picker, shown only while housed
SetHousingType ==
    /\ edits + calls < MaxActions
    /\ form.housed
    /\ \E type \in {"1", "2"} :
         /\ type # form.housingType
         /\ form' = [form EXCEPT !.housingType = type]
    /\ edits' = edits + 1
    /\ UNCHANGED <<engineVars, ledgerVars, heapVars, loading, errorMessage,
                   pending, engineCalls, route, calls>>

ResetAll ==
    /\ edits + calls < MaxActions
    /\ form' = InitialForm
    /\ errorMessage' = ""
    /\ edits' = edits + 1
    /\ UNCHANGED <<engineVars, ledgerVars, heapVars, loading, pending,
                   engineCalls, route, calls>>

\* handleCalculate up to its await: the two checks, then the call of
\* calculatePAYE, whose result the invocation holds while it is suspended.
\* The handler does not look at `loading`; it can be entered again while an
\* earlier invocation is suspended.
HandleCalculate ==
    /\ edits + calls < MaxActions
    /\ calls' = calls + 1
    /\ LET parsed == Parsed(form)
       IN  IF GrossInvalid(parsed)
           THEN /\ errorMessage' = GROSS_MESSAGE
                /\ loading' = FALSE
                /\ UNCHANGED <<pending, engineCalls>>
           ELSE IF OthersInvalid(form, parsed)
           THEN /\ errorMessage' = INPUTS_MESSAGE
                /\ loading' = FALSE
                /\ UNCHANGED <<pending, engineCalls>>
           ELSE \E up \in Rounding :
                /\ errorMessage' = ""
                /\ loading' = TRUE
                /\ engineCalls' = Append(engineCalls, Params(form, parsed))
                /\ pending' = Append(pending,
                       [result |-> calculatePAYE(Params(form, parsed), up),
                        rendered |-> history])
    /\ UNCHANGED <<engineVars, ledgerVars, heapVars, form, route, edits>>

\* a suspended invocation resumes: addToHistory(result), navigate, and
\* setLoading(false) in the finally block
Resume ==
    \E i \in 1..Len(pending) :
        /\ history' = setHistory(history, pending[i].rendered,
                                 pending[i].result, now)
        /\ appended' = Append(appended, pending[i].result)
        /\ route' = Append(route, pending[i].result)
        /\ loading' = FALSE
        /\ pending' = SubSeq(pending, 1, i - 1)
                        \o SubSeq(pending, i + 1, Len(pending))
        /\ UNCHANGED <<engineVars, now, listData, heapVars, form,
                       errorMessage, engineCalls, edits, calls>>

FormNext ==
    \/ SetText
    \/ ToggleSwitch
    \/ SetHousingType
    \/ ResetAll
    \/ HandleCalculate
    \/ Resume

FormSpec == FormInit /\ [][FormNext]_vars

----------------------------------------------------------------------------
(* Claims                                                                  *)

\* C1: once the history screen has rendered the current history, the list it
\* presents is most-recent-first: row i is the (n + 1 - i)-th result appended.
C1_PresentedMostRecentFirst ==
    Len(listData) = Len(appended) =>
        \A i \in 1..Len(listData) :
            EntryResult(listData[i]) = appended[Len(appended) + 1 - i]

----------------------------------------------------------------------------
(* Engine claims, over the states in which calculatePAYE has returned      *)

Returned == result # <<>>
r == result[1]

\* the gross pays the domain pairs with `input`, all else held fixed
Plain(p) ==
    /\ p.benefits = 0 /\ p.pension = 0 /\ p.allowableDeductions = 0
    /\ ~p.housed /\ p.housingValue = 0 /\ p.rent = 0

GrossPaysWith(p) == IF Plain(p) THEN GrossPays \cup FewGrossPays ELSE FewGrossPays

LargerGross(p) == {g \in GrossPaysWith(p) : g > p.grossPay}

\* index of the health-levy band a gross pay falls in (17 = the open top band)
BandOf(g) ==
    IF g > NhifBands[Len(NhifBands)][1] THEN Len(NhifBands) + 1
    ELSE CHOOSE i \in 1..Len(NhifBands) :
            /\ g <= NhifBands[i][1]
            /\ \A j \in 1..(i - 1) : g > NhifBands[j][1]

\* toFixed is a function of the double it is given: a second call that reaches
\* the same taxable income rounds its tax the way the first call did.  (The
\* other two sites see a different gross pay, so nothing ties their flags.)
SameRounding(r2, up) ==
    r2.taxableIncome = r.taxableIncome => Paye(r.taxableIncome, up["paye"]) = r.paye

\* C2 (as claimed): a larger gross pay, all else equal, never yields a smaller
\* paye, nhif or nssf, whichever limits the increase crosses.
C2_MonotoneInGross ==
    Returned =>
        \A g2 \in LargerGross(input) : \A up \in Rounding :
            LET r2 == calculatePAYE([input EXCEPT !.grossPay = g2], up)
            IN  SameRounding(r2, up) =>
                  /\ r2.paye >= r.paye
                  /\ r2.nhif >= r.nhif
                  /\ r2.nssf >= r.nssf

\* C2 (amended): nhif and nssf never decrease with gross pay; paye never
\* decreases as long as both gross pays fall in the same health-levy band.
C2_MonotoneWithinBand ==
    Returned =>
        \A g2 \in LargerGross(input) : \A up \in Rounding :
            LET r2 == calculatePAYE([input EXCEPT !.grossPay = g2], up)
            IN  SameRounding(r2, up) =>
                  /\ r2.nhif >= r.nhif
                  /\ r2.nssf >= r.nssf
                  /\ BandOf(g2) = BandOf(input.grossPay) => r2.paye >= r.paye

\* a larger gross pay in the same band and past a bracket bound was compared
C2_Witness ==
    /\ Returned
    /\ r.paye > 0
    /\ r.taxableIncome <= KES(500000)
    /\ \E g2 \in LargerGross(input) :
          /\ BandOf(g2) = BandOf(input.grossPay)
          /\ calculatePAYE([input EXCEPT !.grossPay = g2], AllUp).taxableIncome
                > KES(500000)

\* C3: taxableIncome, paye, nssf, nhif and ahl are never negative.
C3_NonNegative ==
    Returned =>
        /\ r.taxableIncome >= 0
        /\ r.paye >= 0
        /\ r.nssf >= 0
        /\ r.nhif >= 0
        /\ r.ahl >= 0

\* the deductions exceed the income, and the floor gave 0
C3_Witness ==
    /\ Returned
    /\ input.grossPay + r.taxableBenefits
         < r.nssf + r.nhif + r.ahl + input.allowableDeductions
    /\ r.taxableIncome = 0

\* C4: taxableIncome = max(0, gross + taxableBenefits - min(pension, 30000)
\* - nssf - nhif - ahl - other deductions); a pension above 30000 reduces it
\* by exactly 30000; it is never negative.
C4_TaxableIncome ==
    Returned =>
        LET pensionRelief == IF input.pension > 3000000 THEN 3000000
                             ELSE input.pension
            base == input.grossPay + r.taxableBenefits - pensionRelief
                      - r.nssf - r.nhif - r.ahl - input.allowableDeductions
        IN  /\ r.taxableIncome = IF base > 0 THEN base ELSE 0
            /\ r.taxableIncome >= 0

\* a pension above the cap, with income left to tax
C4_Witness ==
    /\ Returned
    /\ input.pension > 3000000
    /\ input.allowableDeductions > 0
    /\ r.taxableIncome > 0

\* the part of t that lies in the bracket (lo, hi]
PartIn(t, lo, hi) ==
    IF t <= lo THEN 0 ELSE IF t <= hi THEN t - lo ELSE hi - lo

\* the marginal-bracket sum T(t), exactly (t above 800000 has no upper bracket bound)
MarginalTax(t) ==
    Plus(Plus(Plus(Plus(Times(PartIn(t, 0, 2400000), 100),
                        Times(PartIn(t, 2400000, 3233300), 250)),
                   Times(PartIn(t, 3233300, 50000000), 300)),
              Times(PartIn(t, 50000000, 80000000), 325)),
         Times(IF t > 80000000 THEN t - 80000000 ELSE 0, 350))

\* C5: paye is max(0, T(taxableIncome) - 2400) to the nearest cent, T the
\* marginal-bracket sum; gross 50000 with nothing else entered and the four
\* toggles on gives nssf 1080.00, nhif 1200, ahl 750.00, taxable 46970.00
\* and paye 6474.35.
C5_ProgressiveTax ==
    Returned =>
        LET owed == MathMax0(Plus(MarginalTax(r.taxableIncome), Exact(-240000)))
        IN  /\ r.paye \in {toFixed2(owed, FALSE), toFixed2(owed, TRUE)}
            /\ input = MakeInput(5000000, 0, 0, 0, NoHousing, DefaultToggles) =>
                  /\ r.nssf = 108000
                  /\ r.nhif = 120000
                  /\ r.ahl = 75000
                  /\ r.taxableIncome = 4697000
                  /\ r.paye = 647435

\* the worked example has been computed
C5_Witness ==
    /\ Returned
    /\ input = MakeInput(5000000, 0, 0, 0, NoHousing, DefaultToggles)
    /\ r.paye = 647435

\* C6: totalDeductions = paye + nssf + nhif + ahl + the full pension + the full
\* other deductions; raising a pension of at least 30000 by d leaves
\* taxableIncome and paye as they were and raises totalDeductions by d.
C6_TotalDeductions ==
    Returned =>
        /\ r.totalDeductions = r.paye + r.nssf + r.nhif + r.ahl
                                 + input.pension + input.allowableDeductions
        /\ input.pension >= 3000000 =>
              \A p2 \in {p \in Pensions : p > input.pension} :
                \A up \in Rounding :
                  calculatePAYE(input, up) = r =>
                    LET r2 == calculatePAYE([input EXCEPT !.pension = p2], up)
                    IN  /\ r2.taxableIncome = r.taxableIncome
                        /\ r2.paye = r.paye
                        /\ r2.totalDeductions
                             = r.totalDeductions + (p2 - input.pension)

\* a pension at the cap that can be raised, with tax owed
C6_Witness ==
    /\ Returned
    /\ input.pension = 3000000
    /\ \E p2 \in Pensions : p2 > input.pension
    /\ r.paye > 0

\* C7: netPay = grossPay - totalDeductions, never clamped: it is negative
\* whenever the deductions exceed the gross pay, and netPay + totalDeductions
\* = grossPay.
C7_NetPay ==
    Returned =>
        /\ r.netPay = input.grossPay - r.totalDeductions
        /\ r.totalDeductions > input.grossPay => r.netPay < 0
        /\ r.netPay + r.totalDeductions = input.grossPay

\* deductions larger than the gross pay
C7_Witness ==
    /\ Returned
    /\ input.pension > input.grossPay
    /\ r.totalDeductions > input.grossPay
    /\ r.netPay < 0

\* the contribution before rounding: 6% of the pay up to 6000, plus, with the
\* second tier on and pay above 6000, 6% of the pay between 6000 and 18000
TieredContribution(p) ==
    LET upTo(limit) == IF p.grossPay < limit THEN p.grossPay ELSE limit
    IN  Plus(Times(upTo(600000), 60),
             IF p.deductTier2 /\ p.grossPay > 600000
             THEN Times(upTo(1800000) - 600000, 60) ELSE Exact(0))

\* C8 (as claimed): nssf is 200 in legacy mode and in tiered mode exactly
\* min(gross, 6000) * 0.06 (+ (min(gross, 18000) - 6000) * 0.06 with tier 2).
C8_NssfExact ==
    Returned =>
        IF ~input.use2025Tiers THEN r.nssf = 20000
        ELSE Exact(r.nssf) = TieredContribution(input)

\* C8 (amended): as claimed, with the tiered amount rounded to the nearest
\* cent; it never exceeds 360 without the second tier and 1080 with it.
C8_NssfRounded ==
    Returned =>
        IF ~input.use2025Tiers THEN r.nssf = 20000
        ELSE /\ r.nssf \in {toFixed2(TieredContribution(input), FALSE),
                            toFixed2(TieredContribution(input), TRUE)}
             /\ ~input.deductTier2 => r.nssf <= 36000
             /\ r.nssf <= 108000

\* tiered mode with the second tier off and pay above the lower limit: 360
C8_Witness ==
    /\ Returned
    /\ input.use2025Tiers /\ ~input.deductTier2
    /\ input.grossPay > 600000
    /\ r.nssf = 36000

\* the table of the claim: <<inclusive upper bound, levy>>, then 1700
LevyTable ==
    << <<599900, 15000>>, <<799900, 30000>>, <<1199900, 40000>>,
       <<1499900, 50000>>, <<1999900, 60000>>, <<2499900, 75000>>,
       <<2999900, 85000>>, <<3499900, 90000>>, <<3999900, 95000>>,
       <<4499900, 100000>>, <<4999900, 110000>>, <<5999900, 120000>>,
       <<6999900, 130000>>, <<7999900, 140000>>, <<8999900, 150000>>,
       <<9999900, 160000>> >>

\* band i covers the pay above the previous bound up to its own, the 17th the rest
InBand(g, i) ==
    /\ i <= 16 => g <= LevyTable[i][1]
    /\ i > 1 => g > LevyTable[i - 1][1]

\* C9: exactly one band applies to any gross pay, fractional ones between a
\* bound and the next whole number included, and nhif is that band's amount.
C9_BandTotality ==
    Returned =>
        /\ Cardinality({i \in 1..17 : InBand(input.grossPay, i)}) = 1
        /\ \A i \in 1..17 :
              InBand(input.grossPay, i) =>
                  r.nhif = IF i = 17 THEN 170000 ELSE LevyTable[i][2]

\* 5999.50 lies strictly between the first bound and 6000
C9_Witness ==
    /\ Returned
    /\ input.grossPay = 599950
    /\ r.nhif = 30000

\* C10: taxableBenefits = B + H, B the benefits (less 5000, floored at 0, when
\* ignoreBenefits), H = max(0, housingValue - rent) when housed with a
\* positive housing value, else 0.
C10_TaxableBenefits ==
    Returned =>
        LET B == IF ~input.ignoreBenefits THEN input.benefits
                 ELSE IF input.benefits > 500000 THEN input.benefits - 500000
                 ELSE 0
            H == IF input.housed /\ input.housingValue > 0
                    /\ input.housingValue > input.rent
                 THEN input.housingValue - input.rent ELSE 0
        IN  /\ r.taxableBenefits = B + H
            /\ (input.housed /\ input.rent > input.housingValue) =>
                  r.taxableBenefits = B

\* housed, with more rent paid than the housing is worth
C10_Witness ==
    /\ Returned
    /\ input.housed
    /\ input.housingValue > 0
    /\ input.rent > input.housingValue
    /\ input.benefits > 500000
    /\ input.ignoreBenefits

\* C11: with benefits, pension, other deductions, housing value and rent 0,
\* not housed and the four toggles off: nssf = 200, ahl = 0 and
\* netPay = grossPay - paye - 200 - nhif.
C11_ZeroDeductionRoundTrip ==
    (/\ Returned
     /\ input.benefits = 0 /\ input.pension = 0 /\ input.allowableDeductions = 0
     /\ input.housingValue = 0 /\ input.rent = 0 /\ ~input.housed
     /\ ~input.ignoreBenefits /\ ~input.use2025Tiers
     /\ ~input.deductTier2 /\ ~input.deductAHL)
    => /\ r.nssf = 20000
       /\ r.ahl = 0
       /\ r.netPay = input.grossPay - r.paye - 20000 - r.nhif

\* such an input with tax owed
C11_Witness ==
    /\ Returned
    /\ Plain(input)
    /\ ~input.ignoreBenefits /\ ~input.use2025Tiers
    /\ ~input.deductTier2 /\ ~input.deductAHL
    /\ r.paye > 0
    /\ r.netPay = input.grossPay - r.paye - 20000 - r.nhif

\* the housing fields another caller could have passed
OtherHousingValues == {0, KES(2000), KES(10000), KES(15000)}
HousingTypes == {"1", "2"}

\* the amounts calculatePAYE derives (the echoed inputs left out)
Derived(x) ==
    [ taxableBenefits |-> x.taxableBenefits, taxableIncome |-> x.taxableIncome,
      nssf |-> x.nssf, nhif |-> x.nhif, ahl |-> x.ahl, paye |-> x.paye,
      totalDeductions |-> x.totalDeductions, netPay |-> x.netPay ]

\* the way the call that returned r rounded its half cents
RoundingOf(p, x) == CHOOSE up \in Rounding : calculatePAYE(p, up) = x

\* C18: with housed = false, housingValue, rent and housingType change no
\* derived amount; housingType changes none, housed or not.  (Both calls see
\* the same gross pay and taxable income, so they round alike: the flags of
\* the first call serve the second; a flag the first call did not need is
\* not needed by the second either.)
C18_HousingInert ==
    Returned =>
        LET up == RoundingOf(input, r)
        IN  /\ \A ty \in HousingTypes :
                  Derived(calculatePAYE([input EXCEPT !.housingType = ty], up))
                    = Derived(r)
            /\ ~input.housed =>
                  \A hv \in OtherHousingValues, rn \in OtherHousingValues,
                     ty \in HousingTypes :
                      Derived(calculatePAYE(
                          [input EXCEPT !.housingValue = hv, !.rent = rn,
                                        !.housingType = ty], up))
                        = Derived(r)

\* not housed, yet a housing value above the rent was passed
C18_Witness ==
    /\ Returned
    /\ ~input.housed
    /\ input.housingValue > input.rent
    /\ r.taxableBenefits = 0
    /\ r.paye > 0

\* taxable incomes on and around the bracket bounds
TaxableIncomes ==
    {0, KES(1000000)}
      \cup {b + d : b \in {2400000, 3233300, 50000000, 80000000},
                    d \in (0 - Spread)..Spread}

\* C20: paye never decreases as taxable income grows, bracket bounds included,
\* the hard-coded widths 24000, 8333, 467667, 300000 adding up to the bounds;
\* paye is 0 for every taxable income up to 24000.
C20_PayeMonotone ==
    /\ BAND1_TOP = 2400000
    /\ BAND1_TOP + BAND2_WIDTH = 3233300
    /\ BAND1_TOP + BAND2_WIDTH + BAND3_WIDTH = 50000000
    /\ BAND1_TOP + BAND2_WIDTH + BAND3_WIDTH + BAND4_WIDTH = 80000000
    /\ Returned =>
          /\ r.taxableIncome <= 2400000 => r.paye = 0
          /\ \A t2 \in TaxableIncomes : \A up \in BOOLEAN :
                t2 > r.taxableIncome => Paye(t2, up) >= r.paye

\* a taxable income just below a bracket bound, with tax owed, was computed
C20_Witness ==
    /\ Returned
    /\ r.taxableIncome = 3233300 - 1
    /\ r.paye > 0
    /\ 3233300 \in TaxableIncomes

----------------------------------------------------------------------------
(* History claims                                                          *)

\* C15: every entry carries a timestamp that is a reading of the clock, and
\* an entry appended earlier never has a later timestamp than one appended
\* after it (history holds the newest entry first), whatever the clock did.
C15_TimestampOrder ==
    /\ \A i \in 1..Len(history) : history[i].timestamp \in 0..MaxClock
    /\ \A i \in 1..Len(history) : \A j \in i..Len(history) :
          history[j].timestamp <= history[i].timestamp

\* C19: once the history screen has rendered the current history of N
\* entries, the row titled #k shows the k-th calculation appended; the first
\* row is the newest, titled #N, the last the oldest, titled #1.
C19_RowNumbering ==
    (Len(listData) = Len(appended) /\ Len(history) = Len(appended)) =>
        \A i \in 1..Len(listData) :
            LET row == renderItem(history, listData[i], i - 1)
            IN  /\ row.title = Len(appended) + 1 - i
                /\ EntryResult(row.item) = appended[row.title]

\* C12: an array obtained from the history (the context's array, or the
\* reversed copy the history screen builds) keeps its length, order and entry
\* contents through later appends; addToHistory puts a new array in the state
\* and leaves the result object it was passed as it was.
C12_SnapshotsImmutable ==
    /\ \A i \in 1..Len(snaps) :
          /\ Deref(heap, snaps[i].arr) = snaps[i].items
          /\ snaps[i].gen < Len(passed) => snaps[i].arr # heap.hist
    /\ \A i \in 1..Len(passed) : heap.objs[passed[i].obj] = passed[i].was

\* both kinds of reader hold a non-empty array from before a later append
C12_Witness ==
    /\ \E i \in 1..Len(snaps) :
          /\ snaps[i].kind = "context"
          /\ Len(snaps[i].items) > 0 /\ snaps[i].gen < Len(passed)
    /\ \E i \in 1..Len(snaps) :
          /\ snaps[i].kind = "list"
          /\ Len(snaps[i].items) > 0 /\ snaps[i].gen < Len(passed)

\* C13: two reads of the history with no append between them give equal
\* sequences, and reading leaves the stored history as the appends made it
\* (newest first), so a later read does not see a flipped order.
C13_ListIdempotent ==
    /\ \A i \in 1..Len(snaps) : \A j \in 1..Len(snaps) :
          (snaps[i].kind = snaps[j].kind /\ snaps[i].gen = snaps[j].gen)
            => snaps[i].items = snaps[j].items
    /\ LET stored == Deref(heap, heap.hist)
       IN  /\ Len(stored) = Len(passed)
           /\ \A i \in 1..Len(stored) :
                 EntryResult(stored[i]) = passed[Len(passed) + 1 - i].was

\* the history screen rendered the same two-entry history twice
C13_Witness ==
    \E i \in 1..Len(snaps) : \E j \in 1..Len(snaps) :
        /\ i < j
        /\ snaps[i].kind = "list" /\ snaps[j].kind = "list"
        /\ snaps[i].gen = snaps[j].gen
        /\ Len(snaps[i].items) >= 2
        /\ snaps[i].items[1] # snaps[i].items[2]

----------------------------------------------------------------------------
(* Calculator-screen claims                                                *)

\* a sequence without its k-th element
Without(seq, k) == SubSeq(seq, 1, k - 1) \o SubSeq(seq, k + 1, Len(seq))

\* C14: every addToHistory makes the history exactly one longer and keeps
\* the entries it had, with their contents and in their order, however the
\* suspended handleCalculate invocations are resumed; so the history holds
\* one entry per calculation that passed validation and has resumed.
C14_AppendNeverDrops ==
    /\ [](/\ Len(history) = Len(appended)
          /\ Len(history) + Len(pending) = Len(engineCalls))
    /\ [][Len(appended') = Len(appended) + 1 =>
            /\ Len(history') = Len(history) + 1
            /\ \E k \in 1..Len(history') : Without(history', k) = history
            /\ \E k \in 1..Len(history') :
                  EntryResult(history'[k]) = appended'[Len(appended')]]_vars

\* two invocations were suspended together and resumed last-first
C14_Witness ==
    /\ pending = <<>>
    /\ Len(engineCalls) = 2 /\ Len(history) = 2
    /\ engineCalls[1].grossPay # engineCalls[2].grossPay
    /\ appended[1].grossPay = engineCalls[2].grossPay
    /\ appended[2].grossPay = engineCalls[1].grossPay

\* what handleCalculate finds wrong with the form it parses
C16_Rejected ==
    LET found == Parsed(form)
        Bad(x) == isNaN(x) \/ x < 0
    IN  \/ isNaN(found.grossPay) \/ found.grossPay <= 0
        \/ Bad(found.benefits) \/ Bad(found.pension)
        \/ Bad(found.allowableDeductions)
        \/ form.housed /\ (Bad(found.housingValue) \/ Bad(found.rent))

Monetary ==
    {"grossPay", "benefits", "pension", "allowableDeductions",
     "housingValue", "rent"}

\* C17: every call of calculatePAYE receives finite, non-negative numbers in
\* all six monetary fields, and no history entry echoes a negative or
\* non-numeric housingValue or rent.
C17_EngineInputsValid ==
    /\ \A i \in 1..Len(engineCalls) : \A field \in Monetary :
          ~isNaN(engineCalls[i][field]) /\ engineCalls[i][field] >= 0
    /\ \A i \in 1..Len(history) : \A field \in {"housingValue", "rent"} :
          ~isNaN(history[i][field]) /\ history[i][field] >= 0

====
